---- MODULE Spec2Model ----
(***************************************************************************)
(* A model of the Steam memory carver (src/steam_forensics.py) and of its  *)
(* post-processing pipeline (src/postprocess.py).                          *)
(*                                                                         *)
(* Bytes and characters are their integer codes; a bytes object or a str   *)
(* is a sequence of codes, so slicing, searching and lexicographic         *)
(* comparison are computed as Python computes them.                        *)
(***************************************************************************)
EXTENDS Integers, Sequences, FiniteSets

VARIABLES
    \* ---- SteamCarver._generator / _layer_read_chunks ----
    layer,        \* the address space: its mapping() tuples, maximum_address
    mem,          \* the printable run the image holds (every other byte is 0)
    chunk_size,   \* clamped options of _generator
    overlap,
    minlen,
    scan_uni,
    pc,           \* "config" | "mapping" | "loop" | "done"
    idx,          \* index of the mapping() tuple being scanned (0: none yet)
    cursor,
    virt_end,
    attempts,     \* every <<idx, cursor>> handed to layer.read, in order
    failed,       \* the <<idx, cursor>> whose read raised InvalidAddressException
    chunks,       \* every <<idx, base, len>> yielded by _layer_read_chunks
    rows,         \* every row yielded by _generator: [offset, length]
    \* ---- iter_strings on one buffer ----
    sbuf,         \* buf
    sminlen,      \* minlen
    sunicode,     \* scan_unicode
    sout,         \* the candidates yielded, in order: [offset, length]
    spc,          \* "call" | "done"
    \* ---- one candidate through match_kind and the field extractors ----
    cdata,        \* match_bytes
    crow,         \* the fields _generator derives from it
    cpc,          \* "call" | "done"
    \* ---- hex_off on one value ----
    hin,          \* v
    hout,         \* hex_off(v)
    hagain,       \* hex_off(hex_off(v))
    hpc,          \* "call" | "done"
    \* ---- postprocess.main ----
    raw,          \* the rows csv.DictReader yields
    ppc,          \* "read" | "done"
    pi,           \* rows read so far
    seen,
    cleaned_rows,
    top_domains,
    steamid_rows,
    chats

scanVars == <<layer, mem, chunk_size, overlap, minlen, scan_uni, pc, idx,
              cursor, virt_end, attempts, failed, chunks, rows>>

strVars == <<sbuf, sminlen, sunicode, sout, spc>>

clsVars == <<cdata, crow, cpc>>

hexVars == <<hin, hout, hagain, hpc>>

postVars == <<raw, ppc, pi, seen, cleaned_rows, top_domains, steamid_rows, chats>>

vars == <<scanVars, strVars, clsVars, hexVars, postVars>>

\* What each part leaves alone.
notScan == <<strVars, clsVars, hexVars, postVars>>
notStrings == <<scanVars, clsVars, hexVars, postVars>>
notClassify == <<scanVars, strVars, hexVars, postVars>>
notHex == <<scanVars, strVars, clsVars, postVars>>
notPost == <<scanVars, strVars, clsVars, hexVars>>

-----------------------------------------------------------------------------
(* Small helpers *)

Min(a, b) == IF a < b THEN a ELSE b
Max(a, b) == IF a > b THEN a ELSE b

-----------------------------------------------------------------------------
(* iter_strings *)

\* [ -~]
Printable(b) == b >= 32 /\ b <= 126

\* Greedy [ -~]* at position pos: the number of bytes consumed, up to the
\* first byte that is not printable or the end of the buffer.
AsciiRunLen(buf, pos) ==
    LET stop == CHOOSE j \in pos..(Len(buf) + 1) :
                    j = Len(buf) + 1 \/ ~Printable(buf[j])
    IN  stop - pos

\* Greedy (?:[ -~]\x00)* at position pos: the number of pairs consumed, up
\* to the first pair that is not (printable, NUL) or does not fit.
Utf16RunLen(buf, pos) ==
    LET IsPair(j) == j + 1 <= Len(buf) /\ Printable(buf[j]) /\ buf[j + 1] = 0
        stop == CHOOSE k \in 0..Len(buf) : ~IsPair(pos + 2 * k)
    IN  stop

\* Greedy X* at position pos, in units: X is [ -~] (width 1) or
\* (?:[ -~]\x00) (width 2).
RunLen(buf, pos, width) ==
    IF width = 2 THEN Utf16RunLen(buf, pos) ELSE AsciiRunLen(buf, pos)

\* re.finditer for a pattern X{minlen,}: the leftmost position at or after
\* pos where at least minlen units match, the greedy match there, and the
\* search resumed at the end of that match.  width is the bytes per unit.
RECURSIVE FindIter(_, _, _, _)
FindIter(buf, pos, minlen_, width) ==
    IF \A q \in pos..Len(buf) : RunLen(buf, q, width) < minlen_ THEN <<>>
    ELSE LET p == CHOOSE q \in pos..Len(buf) :
                      /\ RunLen(buf, q, width) >= minlen_
                      /\ \A r \in pos..(q - 1) : RunLen(buf, r, width) < minlen_
             n == RunLen(buf, p, width) * width
         IN  <<[offset |-> p - 1, length |-> n]>>
                 \o FindIter(buf, p + n, minlen_, width)

\* An iter_strings that runs the UTF-16LE scan before the ASCII scan.
iter_strings_wide_first(buf, minlen_, scan_unicode) ==
    (IF scan_unicode THEN FindIter(buf, 1, minlen_, 2) ELSE <<>>)
        \o FindIter(buf, 1, minlen_, 1)

\* The candidates in the order iter_strings yields them.  A candidate is
\* (m.start(), m.group(0)); group(0) is buf[offset .. offset+length).
iter_strings(buf, minlen_, scan_unicode) ==
    FindIter(buf, 1, minlen_, 1)
        \o (IF scan_unicode THEN FindIter(buf, 1, minlen_, 2)
            ELSE <<>>)

-----------------------------------------------------------------------------
(* The compiled patterns and the helpers that search them *)

Lower(b) == IF b >= 65 /\ b <= 90 THEN b + 32 ELSE b

\* \d on bytes
IsDigit(b) == b >= 48 /\ b <= 57

\* \s on bytes: space, \t \n \v \f \r
IsSpace(b) == b \in {32, 9, 10, 11, 12, 13}

\* The literal lit at position pos, byte for byte.
MatchExact(d, pos, lit) ==
    /\ pos + Len(lit) - 1 <= Len(d)
    /\ \A i \in 1..Len(lit) : d[pos + i - 1] = lit[i]

\* The literal lit (given in lower case) at position pos under re.IGNORECASE.
MatchLit(d, pos, lit) ==
    /\ pos + Len(lit) - 1 <= Len(d)
    /\ \A i \in 1..Len(lit) : Lower(d[pos + i - 1]) = lit[i]

\* [^\s"']
UrlTail(b) == ~IsSpace(b) /\ b # 34 /\ b # 39

\* [^"]
NotQuote(b) == b # 34

\* [^"\r\n]
MsgTail(b) == b # 34 /\ b # 13 /\ b # 10

\* The byte classes the patterns repeat, by name.
InClass(class, b) ==
    CASE class = "space"    -> IsSpace(b)
      [] class = "digit"    -> IsDigit(b)
      [] class = "urltail"  -> UrlTail(b)
      [] class = "notquote" -> NotQuote(b)
      [] class = "msgtail"  -> MsgTail(b)
      [] class = "zero"     -> b = 48
      [] class = "notslash" -> b # 47

\* Greedy C* at position pos for a byte class C: the number of bytes taken.
SpanWhile(d, pos, class) ==
    LET stop == CHOOSE j \in pos..(Len(d) + 1) :
                    j = Len(d) + 1 \/ ~InClass(class, d[j])
    IN  stop - pos

\* A match is [pos, len], pos 1-based; pos = 0 is "no match" (None).
NoMatch == [pos |-> 0, len |-> 0]

\* m.group(0)
Group(d, m) == SubSeq(d, m.pos, m.pos + m.len - 1)

\* STEAMID_RE: 7656119\d{10}
LitSteamPrefix == <<55, 54, 53, 54, 49, 49, 57>>

SteamIdLenAt(d, p) ==
    IF /\ MatchExact(d, p, LitSteamPrefix)
       /\ p + 16 <= Len(d)
       /\ \A i \in 7..16 : IsDigit(d[p + i])
    THEN 17 ELSE 0

\* UNIX13_RE: \d{13}
Unix13LenAt(d, p) ==
    IF p + 12 <= Len(d) /\ \A i \in 0..12 : IsDigit(d[p + i]) THEN 13 ELSE 0

\* URL_RE: https?://(?:<host>|...)[^\s"']+, re.IGNORECASE, the hosts being
\*   steamcommunity
\*   steampowered
\*   store.steampowered
\*   help.steampowered
\*   shared.steamstatic
\*   avatars.steamstatic
\*   steamcdn
\*   steamuserimages
\*   ext2-par1.steamserver
\*   steambroadcast
\*   steamloopback
LitHttp == <<104, 116, 116, 112>>
LitColonSlashes == <<58, 47, 47>>
UrlHosts ==
    { <<115, 116, 101, 97, 109, 99, 111, 109, 109, 117, 110, 105, 116, 121>>,
      <<115, 116, 101, 97, 109, 112, 111, 119, 101, 114, 101, 100>>,
      <<115, 116, 111, 114, 101, 46, 115, 116, 101, 97, 109, 112, 111, 119, 101, 114, 101, 100>>,
      <<104, 101, 108, 112, 46, 115, 116, 101, 97, 109, 112, 111, 119, 101, 114, 101, 100>>,
      <<115, 104, 97, 114, 101, 100, 46, 115, 116, 101, 97, 109, 115, 116, 97, 116, 105, 99>>,
      <<97, 118, 97, 116, 97, 114, 115, 46, 115, 116, 101, 97, 109, 115, 116, 97, 116, 105, 99>>,
      <<115, 116, 101, 97, 109, 99, 100, 110>>,
      <<115, 116, 101, 97, 109, 117, 115, 101, 114, 105, 109, 97, 103, 101, 115>>,
      <<101, 120, 116, 50, 45, 112, 97, 114, 49, 46, 115, 116, 101, 97, 109, 115, 101, 114, 118, 101, 114>>,
      <<115, 116, 101, 97, 109, 98, 114, 111, 97, 100, 99, 97, 115, 116>>,
      <<115, 116, 101, 97, 109, 108, 111, 111, 112, 98, 97, 99, 107>> }

\* The host's bytes are themselves in [^\s"'], so whichever alternative
\* matches, the greedy tail ends where the run of such bytes that starts at
\* the host ends.
UrlLenAt(d, p) ==
    LET q == IF p + 4 <= Len(d) /\ Lower(d[p + 4]) = 115 THEN p + 5 ELSE p + 4
        h == q + 3
    IN  IF /\ MatchLit(d, p, LitHttp)
           /\ MatchLit(d, q, LitColonSlashes)
           /\ \E host \in UrlHosts :
                 /\ MatchLit(d, h, host)
                 /\ h + Len(host) <= Len(d)
                 /\ UrlTail(d[h + Len(host)])
        THEN (h - p) + SpanWhile(d, h, "urltail")
        ELSE 0

\* MSG_LINE_RE, re.IGNORECASE:
\*   "message"\s*:\s*"[^"]+"  |  A_TAG_\d{3,}[^"\r\n]*  |
\*   im\s+going\s+to\s+use[^"\r\n]*
LitMessageKey == <<34, 109, 101, 115, 115, 97, 103, 101, 34>>
LitATag == <<97, 95, 116, 97, 103, 95>>
LitIm == <<105, 109>>
LitGoing == <<103, 111, 105, 110, 103>>
LitTo == <<116, 111>>
LitUse == <<117, 115, 101>>

MsgKeyLenAt(d, p) ==
    LET a == p + 9
        colon == a + SpanWhile(d, a, "space")
        quote == colon + 1 + SpanWhile(d, colon + 1, "space")
        body == SpanWhile(d, quote + 1, "notquote")
        close == quote + 1 + body
    IN  IF /\ MatchLit(d, p, LitMessageKey)
           /\ colon <= Len(d) /\ d[colon] = 58
           /\ quote <= Len(d) /\ d[quote] = 34
           /\ body >= 1
           /\ close <= Len(d)
        THEN close - p + 1
        ELSE 0

MsgTagLenAt(d, p) ==
    IF MatchLit(d, p, LitATag) /\ SpanWhile(d, p + 6, "digit") >= 3
    THEN 6 + SpanWhile(d, p + 6, "msgtail")
    ELSE 0

MsgPhraseLenAt(d, p) ==
    LET s1 == SpanWhile(d, p + 2, "space")
        g == p + 2 + s1
        s2 == SpanWhile(d, g + 5, "space")
        t == g + 5 + s2
        s3 == SpanWhile(d, t + 2, "space")
        u == t + 2 + s3
    IN  IF /\ MatchLit(d, p, LitIm) /\ s1 >= 1
           /\ MatchLit(d, g, LitGoing) /\ s2 >= 1
           /\ MatchLit(d, t, LitTo) /\ s3 >= 1
           /\ MatchLit(d, u, LitUse)
        THEN (u + 3 - p) + SpanWhile(d, u + 3, "msgtail")
        ELSE 0

\* The alternatives begin with different bytes, so at most one matches at p.
MsgLenAt(d, p) ==
    IF MsgKeyLenAt(d, p) > 0 THEN MsgKeyLenAt(d, p)
    ELSE IF MsgTagLenAt(d, p) > 0 THEN MsgTagLenAt(d, p)
    ELSE MsgPhraseLenAt(d, p)

\* The length of the match of the named pattern at position p, or 0 when it
\* does not match there (none of the patterns matches the empty string).
MatchLenAt(pattern, d, p) ==
    CASE pattern = "STEAMID_RE"  -> SteamIdLenAt(d, p)
      [] pattern = "UNIX13_RE"   -> Unix13LenAt(d, p)
      [] pattern = "URL_RE"      -> UrlLenAt(d, p)
      [] pattern = "MSG_LINE_RE" -> MsgLenAt(d, p)

\* pattern.search(data): the match at the leftmost position where one exists.
Search(pattern, d) ==
    IF \A p \in 1..Len(d) : MatchLenAt(pattern, d, p) = 0 THEN NoMatch
    ELSE LET p == CHOOSE q \in 1..Len(d) :
                      /\ MatchLenAt(pattern, d, q) > 0
                      /\ \A r \in 1..(q - 1) : MatchLenAt(pattern, d, r) = 0
         IN  [pos |-> p, len |-> MatchLenAt(pattern, d, p)]

-----------------------------------------------------------------------------
(* first_group, int_unix_ms, match_kind *)

\* bytes.decode("ascii", "ignore") and .decode("utf-8", "ignore") of bytes
\* below 128: the same codes; bytes of 128 and above are dropped (ascii).
DecodeAscii(b) == SelectSeq(b, LAMBDA c : c < 128)

\* first_group(pattern, data, name) or "": every pattern's named group is
\* the whole match.
first_group(pattern, d) ==
    LET m == Search(pattern, d)
    IN  IF m.pos = 0 THEN <<>> ELSE DecodeAscii(Group(d, m))

\* int(b"...") of ASCII digits, as the decimal digits of the integer: the
\* digits without their leading zeros, <<48>> for zero.
IntOfDigits(ds) ==
    LET z == SpanWhile(ds, 1, "zero")
    IN  IF z = Len(ds) THEN <<48>> ELSE SubSeq(ds, z + 1, Len(ds))

\* int_unix_ms(data) or 0
int_unix_ms(d) ==
    LET m == Search("UNIX13_RE", d)
    IN  IF m.pos = 0 THEN <<48>> ELSE IntOfDigits(Group(d, m))

\* A match_kind that looks for the identifier before the URL.
match_kind_identifier_first(d) ==
    IF Search("STEAMID_RE", d).pos # 0 THEN "steamid"
    ELSE IF Search("URL_RE", d).pos # 0 THEN "url"
    ELSE IF Search("MSG_LINE_RE", d).pos # 0 THEN "chat"
    ELSE "string"

match_kind(d) ==
    IF Search("URL_RE", d).pos # 0 THEN "url"
    ELSE IF Search("STEAMID_RE", d).pos # 0 THEN "steamid"
    ELSE IF Search("MSG_LINE_RE", d).pos # 0 THEN "chat"
    ELSE "string"

-----------------------------------------------------------------------------
(* postprocess.py: int(), hex_off *)

\* str.isspace for the characters below 256
IsStrSpace(c) == c \in {9, 10, 11, 12, 13, 28, 29, 30, 31, 32, 133, 160}

\* str.strip()
Strip(t) ==
    IF \A i \in 1..Len(t) : IsStrSpace(t[i]) THEN <<>>
    ELSE LET a == CHOOSE i \in 1..Len(t) :
                      ~IsStrSpace(t[i]) /\ \A j \in 1..(i - 1) : IsStrSpace(t[j])
             b == CHOOSE i \in 1..Len(t) :
                      ~IsStrSpace(t[i]) /\ \A j \in (i + 1)..Len(t) : IsStrSpace(t[j])
         IN  SubSeq(t, a, b)

\* int(text) of a str: surrounding whitespace, an optional sign, decimal
\* digits with single underscores allowed between them.  ok = FALSE stands
\* for ValueError.  The value is kept as its sign and decimal digits.
PyInt(text) ==
    LET t == Strip(text)
        signed == Len(t) >= 1 /\ t[1] \in {43, 45}
        body == IF signed THEN Tail(t) ELSE t
        wellFormed ==
            /\ Len(body) >= 1
            /\ \A i \in 1..Len(body) : IsDigit(body[i]) \/ body[i] = 95
            /\ IsDigit(body[1]) /\ IsDigit(body[Len(body)])
            /\ \A i \in 1..(Len(body) - 1) : ~(body[i] = 95 /\ body[i + 1] = 95)
        digits == IntOfDigits(SelectSeq(body, IsDigit))
    IN  IF wellFormed
        THEN [ok |-> TRUE, neg |-> signed /\ t[1] = 45 /\ digits # <<48>>,
              digits |-> digits]
        ELSE [ok |-> FALSE, neg |-> FALSE, digits |-> <<>>]

\* The number a digit string stands for.
RECURSIVE DigitsValue(_)
DigitsValue(ds) ==
    IF ds = <<>> THEN 0
    ELSE 10 * DigitsValue(SubSeq(ds, 1, Len(ds) - 1)) + (ds[Len(ds)] - 48)

\* format(n, "X") for n >= 0
HexDigitUpper(k) == IF k < 10 THEN 48 + k ELSE 55 + k
RECURSIVE FormatUpperHex(_)
FormatUpperHex(n) ==
    IF n < 16 THEN <<HexDigitUpper(n)>>
    ELSE Append(FormatUpperHex(n \div 16), HexDigitUpper(n % 16))

Lit0x == <<48, 120>>

StartsWith(t, prefix) == Len(t) >= Len(prefix) /\ SubSeq(t, 1, Len(prefix)) = prefix

\* f"0x{n:X}" for an integer given by its sign and magnitude
FormatHex(neg, n) == Lit0x \o (IF neg THEN <<45>> ELSE <<>>) \o FormatUpperHex(n)

\* hex_off(v) for a str v
hex_off(v) ==
    IF StartsWith(v, Lit0x) THEN v
    ELSE LET n == PyInt(v)
         IN  IF n.ok THEN FormatHex(n.neg, DigitsValue(n.digits))
             ELSE v

\* hex_off(v) for an int v
hex_off_int(n) == FormatHex(n < 0, IF n < 0 THEN -n ELSE n)

-----------------------------------------------------------------------------
(* postprocess.py: ts_iso, domain_of, ordering *)

\* Two and four decimal digits, zero padded (%m %d %H %M %S, and %Y of a
\* four-digit year).
Pad2(n) == <<48 + (n \div 10), 48 + (n % 10)>>
Pad4(n) == Pad2(n \div 100) \o Pad2(n % 100)

\* The proleptic Gregorian date of a day number counted from 1970-01-01.
CivilFromDays(days) ==
    LET z == days + 719468
        era == z \div 146097
        doe == z - era * 146097
        yoe == (doe - (doe \div 1460) + (doe \div 36524) - (doe \div 146096)) \div 365
        doy == doe - (365 * yoe + (yoe \div 4) - (yoe \div 100))
        mp == (5 * doy + 2) \div 153
        d == doy - ((153 * mp + 2) \div 5) + 1
        mo == IF mp < 10 THEN mp + 3 ELSE mp - 9
        y == yoe + era * 400 + (IF mo <= 2 THEN 1 ELSE 0)
    IN  [year |-> y, month |-> mo, day |-> d]

\* datetime.fromtimestamp(secs, tz=utc).strftime("%Y-%m-%d %H:%M:%S")
FormatUtc(secs) ==
    LET date == CivilFromDays(secs \div 86400)
        rest == secs % 86400
    IN  Pad4(date.year) \o <<45>> \o Pad2(date.month) \o <<45>> \o Pad2(date.day)
            \o <<32>> \o Pad2(rest \div 3600) \o <<58>>
            \o Pad2((rest % 3600) \div 60) \o <<58>> \o Pad2(rest % 60)

\* ts_iso(ms).  v/1000 is taken on the digits (the last three dropped), so
\* that 13-digit millisecond values stay within 32-bit integers.
ts_iso(ms) ==
    LET v == PyInt(ms)
        secs == IF Len(v.digits) <= 3 THEN <<>>
                ELSE SubSeq(v.digits, 1, Len(v.digits) - 3)
    IN  IF ~v.ok \/ v.neg \/ v.digits = <<48>> THEN <<>>
        ELSE FormatUtc(DigitsValue(secs))

\* DOM_RE = ^https?://([^/]+): the length of group(1), 0 without a match.
DomainMatch(u) ==
    LET q == IF Len(u) >= 5 /\ u[5] = 115 THEN 6 ELSE 5
        h == q + 3
    IN  IF /\ MatchExact(u, 1, LitHttp)
           /\ MatchExact(u, q, LitColonSlashes)
           /\ SpanWhile(u, h, "notslash") >= 1
        THEN [pos |-> h, len |-> SpanWhile(u, h, "notslash")]
        ELSE NoMatch

\* str.lower() of ASCII text
LowerStr(t) == [i \in 1..Len(t) |-> Lower(t[i])]

domain_of(url) ==
    IF url = <<>> THEN <<>>
    ELSE LET u == Strip(url)
             m == DomainMatch(u)
         IN  IF m.pos = 0 THEN <<>> ELSE LowerStr(Group(u, m))

\* a < b for two str
StrLess(a, b) ==
    \E k \in 1..(Len(b)) :
        /\ \A j \in 1..(k - 1) : j <= Len(a) /\ a[j] = b[j]
        /\ k - 1 <= Len(a)
        /\ (k = Len(a) + 1 \/ a[k] < b[k])

\* a < b for two tuples of str of the same length
KeyLess(a, b) ==
    \E k \in 1..Len(a) :
        StrLess(a[k], b[k]) /\ \A j \in 1..(k - 1) : a[j] = b[j]

\* list.sort(key=...) and sorted(..., key=...): the items of seq in the
\* order of their keys, keys[i] being the key of seq[i]; the sort is
\* stable, so items with equal keys keep their order.
SortedByKeys(seq, keys) ==
    LET Before(i, j) == KeyLess(keys[i], keys[j]) \/ (keys[i] = keys[j] /\ i < j)
        Rank(i) == Cardinality({j \in 1..Len(seq) : Before(j, i)}) + 1
    IN  [r \in 1..Len(seq) |-> seq[CHOOSE i \in 1..Len(seq) : Rank(i) = r]]

\* sorted(items, key=count, reverse=True): descending counts; a reversed
\* sort is stable too.
SortedByCountDesc(seq) ==
    LET Before(i, j) == seq[i].count > seq[j].count
                         \/ (seq[i].count = seq[j].count /\ i < j)
        Rank(i) == Cardinality({j \in 1..Len(seq) : Before(j, i)}) + 1
    IN  [r \in 1..Len(seq) |-> seq[CHOOSE i \in 1..Len(seq) : Rank(i) = r]]

\* seq[:n]
Take(seq, n) == SubSeq(seq, 1, Min(n, Len(seq)))

-----------------------------------------------------------------------------
(* SteamCarver._generator: option clamping *)

MinChunkSize == 1024
MinMinlen == 3
MaxMinlen == 4096

ClampChunkSize(c) == IF c < MinChunkSize THEN MinChunkSize ELSE c

ClampOverlap(o, c) ==
    LET o1 == IF o < 0 THEN 0 ELSE o
    IN  IF o1 >= c THEN Max(0, c \div 2) ELSE o1

ClampMinlen(m) ==
    LET m1 == IF m < MinMinlen THEN MinMinlen ELSE m
    IN  IF m1 > MaxMinlen THEN MaxMinlen ELSE m1

-----------------------------------------------------------------------------
(* SteamCarver._layer_read_chunks *)

\* virt_end of one mapping() tuple t (t[1] is Python's t[0]).
ComputeVirtEnd(t, chunk_size_, maximum_address) ==
    IF Len(t) >= 2 /\ t[2] >= t[1] THEN t[2]
    ELSE IF Len(t) >= 3 /\ t[3] > 0 THEN t[1] + t[3]
    ELSE Min(t[1] + chunk_size_, maximum_address)

\* A step that forgets the overlap.
StepWithoutOverlap(chunk_size_, overlap_) == Max(1, chunk_size_)

Step(chunk_size_, overlap_) == Max(1, chunk_size_ - overlap_)

ReadLen(chunk_size_, virt_end_, cursor_) == Min(chunk_size_, virt_end_ - cursor_)

\* A scan that gives up the range at the first failed read.
AfterFailedReadAbandons(cursor_, step, virt_end_) == virt_end_

\* The cursor after a read that raised InvalidAddressException.
AfterFailedRead(cursor_, step, virt_end_) == cursor_ + step

\* The cursor after a chunk was yielded.
AfterYield(cursor_, step, virt_end_) == cursor_ + step

\* layer.read(cursor, read_len, pad=True) when it succeeds: the image holds
\* one printable run (ASCII, or UTF-16LE when mem.wide) and zero bytes
\* elsewhere.
ByteAt(a) ==
    IF a >= mem.start /\ a < mem.start + mem.len
    THEN (IF mem.wide /\ (a - mem.start) % 2 = 1 THEN 0 ELSE 65)
    ELSE 0

LayerRead(cursor_, read_len) == [i \in 1..read_len |-> ByteAt(cursor_ + i - 1)]

\* The rows _generator yields for one chunk: abs_off = base + rel_off.
ChunkRows(base, buf) ==
    LET cands == iter_strings(buf, minlen, scan_uni)
    IN  [k \in 1..Len(cands) |->
            [offset |-> base + cands[k].offset, length |-> cands[k].length]]

-----------------------------------------------------------------------------
(* The scan: _generator driving _layer_read_chunks *)

\* A mapping() tuple together with what its slots mean, which the code is
\* not told: "end" (virt_start, virt_end), "len" (virt_start, length),
\* "offlen" (virt_start, mapped_offset, length).
Tuple(shape, t) == [shape |-> shape, t |-> t]

\* The range [start, end) a tuple stands for.
RangeStart(m) == m.t[1]
RangeEnd(m) ==
    CASE m.shape = "end"    -> m.t[2]
      [] m.shape = "len"    -> m.t[1] + m.t[2]
      [] m.shape = "offlen" -> m.t[1] + m.t[3]

Layers ==
    { [maximum_address |-> 8191, mapping |-> <<Tuple("end", <<0, 2100>>)>>],
      [maximum_address |-> 8191,
       mapping |-> <<Tuple("end", <<0, 1500>>), Tuple("len", <<4096, 1200>>)>>],
      [maximum_address |-> 8191, mapping |-> <<Tuple("offlen", <<1000, 512, 1100>>)>>],
      [maximum_address |-> 8191, mapping |-> <<Tuple("len", <<100, 1500>>)>>],
      [maximum_address |-> 8191, mapping |-> <<Tuple("offlen", <<0, 4096, 1500>>)>>] }

\* The options as configured, before _generator clamps them.
Configs ==
    { [chunk_size |-> 1024, overlap |-> 16,   minlen |-> 6,    scan_unicode |-> TRUE],
      [chunk_size |-> 512,  overlap |-> 5000, minlen |-> 1,    scan_unicode |-> FALSE],
      [chunk_size |-> 1024, overlap |-> 700,  minlen |-> 6,    scan_unicode |-> TRUE],
      [chunk_size |-> 2048, overlap |-> -1,   minlen |-> 5000, scan_unicode |-> TRUE] }

\* The printable run of the image: start, length in bytes, UTF-16LE or not.
Runs ==
    { [start |-> 1020, len |-> 10, wide |-> FALSE],
      [start |-> 1000, len |-> 40, wide |-> FALSE],
      [start |-> 1016, len |-> 20, wide |-> TRUE],
      [start |-> 1300, len |-> 4,  wide |-> FALSE] }

\* Reads that may raise InvalidAddressException in one scan.
MaxFails == 2

ScanInit ==
    /\ layer \in Layers
    /\ mem \in Runs
    /\ \E c \in Configs :
          /\ chunk_size = c.chunk_size
          /\ overlap = c.overlap
          /\ minlen = c.minlen
          /\ scan_uni = c.scan_unicode
    /\ pc = "config"
    /\ idx = 0
    /\ cursor = 0
    /\ virt_end = 0
    /\ attempts = <<>>
    /\ failed = {}
    /\ chunks = <<>>
    /\ rows = <<>>

\* _generator, lines 190-205: pull and clamp the options.
Configure ==
    /\ pc = "config"
    /\ chunk_size' = ClampChunkSize(chunk_size)
    /\ overlap' = ClampOverlap(overlap, ClampChunkSize(chunk_size))
    /\ minlen' = ClampMinlen(minlen)
    /\ pc' = "mapping"
    /\ UNCHANGED <<layer, mem, scan_uni, idx, cursor, virt_end, attempts,
                   failed, chunks, rows>>
    /\ UNCHANGED notScan

\* The for loop takes the next mapping() tuple.
StartRange ==
    /\ pc = "mapping"
    /\ idx < Len(layer.mapping)
    /\ idx' = idx + 1
    /\ virt_end' = ComputeVirtEnd(layer.mapping[idx + 1].t, chunk_size,
                                  layer.maximum_address)
    /\ cursor' = layer.mapping[idx + 1].t[1]
    /\ pc' = "loop"
    /\ UNCHANGED <<layer, mem, chunk_size, overlap, minlen, scan_uni,
                   attempts, failed, chunks, rows>>
    /\ UNCHANGED notScan

\* layer.read succeeds: the chunk is yielded and _generator emits its rows.
ReadOk ==
    /\ pc = "loop"
    /\ cursor < virt_end
    /\ LET read_len == ReadLen(chunk_size, virt_end, cursor)
           step == Step(chunk_size, overlap)
       IN  /\ attempts' = Append(attempts, <<idx, cursor>>)
           /\ chunks' = Append(chunks, <<idx, cursor, read_len>>)
           /\ rows' = rows \o ChunkRows(cursor, LayerRead(cursor, read_len))
           /\ cursor' = AfterYield(cursor, step, virt_end)
    /\ UNCHANGED <<layer, mem, chunk_size, overlap, minlen, scan_uni, pc, idx,
                   virt_end, failed>>
    /\ UNCHANGED notScan

\* layer.read raises InvalidAddressException.
ReadFail ==
    /\ pc = "loop"
    /\ cursor < virt_end
    /\ Cardinality(failed) < MaxFails
    /\ attempts' = Append(attempts, <<idx, cursor>>)
    /\ failed' = failed \cup {<<idx, cursor>>}
    /\ cursor' = AfterFailedRead(cursor, Step(chunk_size, overlap), virt_end)
    /\ UNCHANGED <<layer, mem, chunk_size, overlap, minlen, scan_uni, pc, idx,
                   virt_end, chunks, rows>>
    /\ UNCHANGED notScan

\* The while loop ends.
EndRange ==
    /\ pc = "loop"
    /\ cursor >= virt_end
    /\ pc' = "mapping"
    /\ UNCHANGED <<layer, mem, chunk_size, overlap, minlen, scan_uni, idx,
                   cursor, virt_end, attempts, failed, chunks, rows>>
    /\ UNCHANGED notScan

\* mapping() is exhausted.
ScanDone ==
    /\ pc = "mapping"
    /\ idx = Len(layer.mapping)
    /\ pc' = "done"
    /\ UNCHANGED <<layer, mem, chunk_size, overlap, minlen, scan_uni, idx,
                   cursor, virt_end, attempts, failed, chunks, rows>>
    /\ UNCHANGED notScan



-----------------------------------------------------------------------------
(* iter_strings called on one buffer *)

\* Buffers of at most MaxBufLen bytes over a printable byte and NUL.
MaxBufLen == 9
BufBytes == {0, 65}
Buffers == UNION { [1..n -> BufBytes] : n \in 0..MaxBufLen }

StringsInit ==
    /\ sbuf \in Buffers
    /\ sminlen \in {MinMinlen, MinMinlen + 1}
    /\ sunicode \in BOOLEAN
    /\ sout = <<>>
    /\ spc = "call"

IterStrings ==
    /\ spc = "call"
    /\ sout' = iter_strings(sbuf, sminlen, sunicode)
    /\ spc' = "done"
    /\ UNCHANGED <<sbuf, sminlen, sunicode>>
    /\ UNCHANGED notStrings

-----------------------------------------------------------------------------
(* One candidate through match_kind and the field extractors *)

\* Candidates are built from at most MaxFragments of these pieces:
\*   http://steamcdn/a
\*   HTTPS://Store.SteamPowered.com/x
\*   http://example.com/
\*   76561198000000001
\*   1700000000000
\*   0000000000042
\*   123456
\*   "message": "hi"
\*   A_TAG_1234 x
\*   im going to use
\*   and a space
Fragments ==
    { <<104, 116, 116, 112, 58, 47, 47, 115, 116, 101, 97, 109, 99, 100, 110, 47, 97>>,
      <<72, 84, 84, 80, 83, 58, 47, 47, 83, 116, 111, 114, 101, 46, 83, 116, 101, 97, 109, 80, 111, 119, 101, 114, 101, 100, 46, 99, 111, 109, 47, 120>>,
      <<104, 116, 116, 112, 58, 47, 47, 101, 120, 97, 109, 112, 108, 101, 46, 99, 111, 109, 47>>,
      <<55, 54, 53, 54, 49, 49, 57, 56, 48, 48, 48, 48, 48, 48, 48, 48, 49>>,
      <<49, 55, 48, 48, 48, 48, 48, 48, 48, 48, 48, 48, 48>>,
      <<48, 48, 48, 48, 48, 48, 48, 48, 48, 48, 48, 52, 50>>,
      <<49, 50, 51, 52, 53, 54>>,
      <<34, 109, 101, 115, 115, 97, 103, 101, 34, 58, 32, 34, 104, 105, 34>>,
      <<65, 95, 84, 65, 71, 95, 49, 50, 51, 52, 32, 120>>,
      <<105, 109, 32, 103, 111, 105, 110, 103, 32, 116, 111, 32, 117, 115, 101>>,
      <<32>> }
MaxFragments == 3

RECURSIVE Concat(_)
Concat(ss) == IF ss = <<>> THEN <<>> ELSE Head(ss) \o Concat(Tail(ss))

Candidates ==
    { Concat(fs) : fs \in UNION { [1..n -> Fragments] : n \in 1..MaxFragments } }

ClassifyInit ==
    /\ cdata \in Candidates
    /\ crow = <<>>
    /\ cpc = "call"

\* _generator, lines 211-224, for one candidate.
Classify ==
    /\ cpc = "call"
    /\ LET knd == match_kind(cdata)
           um == Search("URL_RE", cdata)
       IN  crow' = [kind |-> knd,
                    steamid |-> first_group("STEAMID_RE", cdata),
                    unix_ts |-> int_unix_ms(cdata),
                    message |-> first_group("MSG_LINE_RE", cdata),
                    value |-> IF knd = "url" /\ um.pos # 0
                              THEN DecodeAscii(Group(cdata, um)) ELSE <<>>]
    /\ cpc' = "done"
    /\ UNCHANGED cdata
    /\ UNCHANGED notClassify

-----------------------------------------------------------------------------
(* hex_off called on one value *)

\* The str values: at most MaxOffsetLen characters of 0 2 4 A a x - space.
MaxOffsetLen == 4
OffsetChars == {48, 50, 52, 65, 97, 120, 45, 32}
OffsetStrings == UNION { [1..n -> OffsetChars] : n \in 0..MaxOffsetLen }
\* The int values.
OffsetInts == {0, 42, 255, 4096}

HexInit ==
    /\ hin \in {[type |-> "str", s |-> t, n |-> 0] : t \in OffsetStrings}
               \cup {[type |-> "int", s |-> <<>>, n |-> k] : k \in OffsetInts}
    /\ hout = <<>>
    /\ hagain = <<>>
    /\ hpc = "call"

\* hex_off(v), and hex_off applied to its result.
HexOff ==
    /\ hpc = "call"
    /\ LET r == IF hin.type = "int" THEN hex_off_int(hin.n) ELSE hex_off(hin.s)
       IN  hout' = r /\ hagain' = hex_off(r)
    /\ hpc' = "done"
    /\ UNCHANGED hin
    /\ UNCHANGED notHex

-----------------------------------------------------------------------------
(* postprocess.main *)

LitUrl == <<117, 114, 108>>
LitSteamid == <<115, 116, 101, 97, 109, 105, 100>>
LitChat == <<99, 104, 97, 116>>
keep_kinds == {LitUrl, LitSteamid, LitChat}

\* A record without payload is kept when its preview has this many characters.
MinPreviewLen == 8
\* The sizes of the "Top URL domains" and "Sample chat lines" sections.
TopDomainLimit == 25
ChatLimit == 100

\* kind = row.get("kind","").strip().lower()
NormKind(row) == LowerStr(Strip(row.kind))

\* The two `continue`s before the row is normalised.
PassesFilter(row) ==
    /\ NormKind(row) \in keep_kinds
    /\ ~(row.message = <<>> /\ row.value = <<>> /\ Len(row.preview) < MinPreviewLen)

\* f"{kind}|{steamid}|{message}|{value}"
DedupKey(row) ==
    NormKind(row) \o <<124>> \o row.steamid \o <<124>> \o row.message
        \o <<124>> \o row.value

\* The row after "normalize + enrich": kind keeps the text of the input.
Enrich(row) ==
    [kind |-> row.kind, unix_ts |-> row.unix_ts, steamid |-> row.steamid,
     message |-> row.message, value |-> row.value, preview |-> row.preview,
     timestamp |-> ts_iso(row.unix_ts),
     offset |-> hex_off(row.offset),
     domain |-> IF NormKind(row) = LitUrl THEN domain_of(row.value) ELSE <<>>]

\* sort_key
sort_key(r) == <<r.timestamp, r.kind, r.offset>>

\* The members of a set of indices, ascending.
Ascending(S) ==
    [n \in 1..Cardinality(S) |->
        CHOOSE k \in S : Cardinality({j \in S : j < k}) = n - 1]

\* domain_counts.items(): a dict keeps the order of first insertion.
DomainCounts(rs) ==
    LET hits == {k \in 1..Len(rs) : rs[k].kind = LitUrl /\ rs[k].domain # <<>>}
        firsts == {k \in hits : \A j \in hits : j < k => rs[j].domain # rs[k].domain}
        order == Ascending(firsts)
    IN  [n \in 1..Len(order) |->
            [domain |-> rs[order[n]].domain,
             count |-> Cardinality({k \in hits : rs[k].domain = rs[order[n]].domain})]]

\* steamids.setdefault(sid, ...) run over the rows hits: the row whose
\* timestamp and offset the entry of sid ends up holding.
SetDefaultOverwrites(rs, hits, sid) ==
    CHOOSE k \in hits : rs[k].steamid = sid
                        /\ \A j \in hits : rs[j].steamid = sid => j <= k

SetDefault(rs, hits, sid) ==
    CHOOSE k \in hits : rs[k].steamid = sid
                        /\ \A j \in hits : rs[j].steamid = sid => k <= j

\* steamids.items() as the rows of the comprehension
SteamIdItems(rs) ==
    LET hits == {k \in 1..Len(rs) : rs[k].kind = LitSteamid /\ rs[k].steamid # <<>>}
        firsts == {k \in hits : \A j \in hits : j < k => rs[j].steamid # rs[k].steamid}
        order == Ascending(firsts)
    IN  [n \in 1..Len(order) |->
            LET sid == rs[order[n]].steamid
                src == rs[SetDefault(rs, hits, sid)]
            IN  [steamid |-> sid, first_seen |-> src.timestamp,
                 offset |-> src.offset]]

\* The chats list before it is sorted.
ChatItems(rs) ==
    LET hits == {k \in 1..Len(rs) : rs[k].kind = LitChat /\ rs[k].message # <<>>}
        order == Ascending(hits)
    IN  [n \in 1..Len(order) |->
            [timestamp |-> rs[order[n]].timestamp,
             message |-> rs[order[n]].message,
             offset |-> rs[order[n]].offset]]

\* The raw records a run may read.
RawRows == {
    \* a steamid hit
    [kind |-> <<115, 116, 101, 97, 109, 105, 100>>, offset |-> <<50, 53, 54>>,
     preview |-> <<55, 54, 53, 54, 49, 49, 57, 56, 48, 48, 48, 48, 48, 48, 48, 48, 49>>,
     steamid |-> <<55, 54, 53, 54, 49, 49, 57, 56, 48, 48, 48, 48, 48, 48, 48, 48, 49>>,
     unix_ts |-> <<56, 54, 52, 48, 48, 48, 48, 48>>, message |-> <<>>,
     value |-> <<>>],
    \* the same hit carved again elsewhere
    [kind |-> <<115, 116, 101, 97, 109, 105, 100>>, offset |-> <<53, 49, 50>>,
     preview |-> <<55, 54, 53, 54, 49, 49, 57, 56, 48, 48, 48, 48, 48, 48, 48, 48, 49>>,
     steamid |-> <<55, 54, 53, 54, 49, 49, 57, 56, 48, 48, 48, 48, 48, 48, 48, 48, 49>>,
     unix_ts |-> <<56, 54, 52, 48, 48, 48, 48, 48>>, message |-> <<>>,
     value |-> <<>>],
    \* the same identifier with a message
    [kind |-> <<115, 116, 101, 97, 109, 105, 100>>, offset |-> <<55, 54, 56>>,
     preview |-> <<55, 54, 53, 54, 49, 49, 57, 56, 48, 48, 48, 48, 48, 48, 48, 48, 49>>,
     steamid |-> <<55, 54, 53, 54, 49, 49, 57, 56, 48, 48, 48, 48, 48, 48, 48, 48, 49>>,
     unix_ts |-> <<49, 48, 48, 48>>, message |-> <<104, 105>>,
     value |-> <<>>],
    \* another identifier, first seen at the time of the line with a message
    [kind |-> <<115, 116, 101, 97, 109, 105, 100>>, offset |-> <<49, 48, 50, 52>>,
     preview |-> <<55, 54, 53, 54, 49, 49, 57, 55, 57, 54, 48, 50, 54, 53, 55, 50, 57>>,
     steamid |-> <<55, 54, 53, 54, 49, 49, 57, 55, 57, 54, 48, 50, 54, 53, 55, 50, 57>>,
     unix_ts |-> <<49, 48, 48, 48>>, message |-> <<>>,
     value |-> <<>>],
    \* a kind column with other case and padding
    [kind |-> <<83, 116, 101, 97, 109, 73, 68, 32>>, offset |-> <<48, 120, 50, 97>>,
     preview |-> <<55, 54, 53, 54, 49, 49, 57, 56, 48, 48, 48, 48, 48, 48, 48, 48, 50>>,
     steamid |-> <<55, 54, 53, 54, 49, 49, 57, 56, 48, 48, 48, 48, 48, 48, 48, 48, 50>>,
     unix_ts |-> <<49, 48, 48, 48>>, message |-> <<>>,
     value |-> <<>>],
    \* a url that carries an identifier
    [kind |-> <<117, 114, 108>>, offset |-> <<49, 54>>,
     preview |-> <<>>,
     steamid |-> <<55, 54, 53, 54, 49, 49, 57, 56, 48, 48, 48, 48, 48, 48, 48, 48, 50>>,
     unix_ts |-> <<48>>, message |-> <<>>,
     value |-> <<104, 116, 116, 112, 115, 58, 47, 47, 83, 116, 101, 97, 109, 67, 111, 109, 109, 117, 110, 105, 116, 121, 46, 99, 111, 109, 47, 105, 100>>],
    \* a url with an upper-case scheme
    [kind |-> <<117, 114, 108>>, offset |-> <<51, 50>>,
     preview |-> <<>>,
     steamid |-> <<>>,
     unix_ts |-> <<97, 98, 99>>, message |-> <<>>,
     value |-> <<72, 84, 84, 80, 58, 47, 47, 115, 116, 101, 97, 109, 99, 100, 110, 47, 97>>],
    \* a chat line
    [kind |-> <<99, 104, 97, 116>>, offset |-> <<54, 52>>,
     preview |-> <<>>,
     steamid |-> <<>>,
     unix_ts |-> <<>>, message |-> <<97, 124, 98>>,
     value |-> <<>>],
    \* a chat line with a value
    [kind |-> <<99, 104, 97, 116>>, offset |-> <<48, 120, 56, 48>>,
     preview |-> <<>>,
     steamid |-> <<>>,
     unix_ts |-> <<>>, message |-> <<97>>,
     value |-> <<98, 124>>],
    \* a kind that is not kept
    [kind |-> <<115, 116, 114, 105, 110, 103>>, offset |-> <<56>>,
     preview |-> <<>>,
     steamid |-> <<>>,
     unix_ts |-> <<>>, message |-> <<120>>,
     value |-> <<>>],
    \* no payload and a short preview
    [kind |-> <<99, 104, 97, 116>>, offset |-> <<57>>,
     preview |-> <<115, 104, 111, 114, 116>>,
     steamid |-> <<>>,
     unix_ts |-> <<>>, message |-> <<>>,
     value |-> <<>>]
    }

MaxRows == 3
RawInputs == UNION { [1..n -> RawRows] : n \in 1..MaxRows }

PostInit ==
    /\ raw \in RawInputs
    /\ ppc = "read" /\ pi = 0 /\ seen = {}
    /\ cleaned_rows = <<>> /\ top_domains = <<>> /\ steamid_rows = <<>>
    /\ chats = <<>>

\* One iteration of `for row in r`.
ReadRow ==
    /\ ppc = "read" /\ pi < Len(raw)
    /\ LET row == raw[pi + 1]
       IN  IF PassesFilter(row) /\ DedupKey(row) \notin seen
           THEN /\ seen' = seen \cup {DedupKey(row)}
                /\ cleaned_rows' = Append(cleaned_rows, Enrich(row))
           ELSE UNCHANGED <<seen, cleaned_rows>>
    /\ pi' = pi + 1
    /\ UNCHANGED <<raw, ppc, top_domains, steamid_rows, chats>>
    /\ UNCHANGED notPost

\* After the last row: the sort and the three findings.
Finish ==
    /\ ppc = "read" /\ pi = Len(raw)
    /\ \E sorted \in {SortedByKeys(cleaned_rows,
                        [k \in 1..Len(cleaned_rows) |-> sort_key(cleaned_rows[k])])} :
       \E ids \in {SteamIdItems(sorted)} :
       \E cs \in {ChatItems(sorted)} :
           /\ cleaned_rows' = sorted
           /\ top_domains' = Take(SortedByCountDesc(DomainCounts(sorted)), TopDomainLimit)
           /\ steamid_rows' = SortedByKeys(ids,
                  [k \in 1..Len(ids) |-> <<ids[k].first_seen, ids[k].steamid>>])
           /\ chats' = Take(SortedByKeys(cs,
                  [k \in 1..Len(cs) |-> <<cs[k].timestamp, cs[k].offset>>]), ChatLimit)
    /\ ppc' = "done"
    /\ UNCHANGED <<raw, pi, seen>>
    /\ UNCHANGED notPost

-----------------------------------------------------------------------------
(* The variables of the parts a specification does not run *)

ScanIdle ==
    /\ layer = [maximum_address |-> 0, mapping |-> <<>>]
    /\ mem = [start |-> 0, len |-> 0, wide |-> FALSE]
    /\ chunk_size = 0 /\ overlap = 0 /\ minlen = 0 /\ scan_uni = FALSE
    /\ pc = "idle" /\ idx = 0 /\ cursor = 0 /\ virt_end = 0
    /\ attempts = <<>> /\ failed = {} /\ chunks = <<>> /\ rows = <<>>

StringsIdle ==
    /\ sbuf = <<>> /\ sminlen = 0 /\ sunicode = FALSE /\ sout = <<>>
    /\ spc = "idle"

ClassifyIdle == cdata = <<>> /\ crow = <<>> /\ cpc = "idle"

HexIdle == hin = <<>> /\ hout = <<>> /\ hagain = <<>> /\ hpc = "idle"

PostIdle ==
    /\ raw = <<>> /\ ppc = "idle" /\ pi = 0 /\ seen = {}
    /\ cleaned_rows = <<>> /\ top_domains = <<>> /\ steamid_rows = <<>>
    /\ chats = <<>>

-----------------------------------------------------------------------------
(* Specifications *)

\* The carver scanning one image.
InitScan == ScanInit /\ StringsIdle /\ ClassifyIdle /\ HexIdle /\ PostIdle
NextScan == Configure \/ StartRange \/ ReadOk \/ ReadFail \/ EndRange \/ ScanDone
SpecScan == InitScan /\ [][NextScan]_vars

\* iter_strings on one buffer.
InitStrings == ScanIdle /\ StringsInit /\ ClassifyIdle /\ HexIdle /\ PostIdle
NextStrings == IterStrings
SpecStrings == InitStrings /\ [][NextStrings]_vars

\* One candidate classified.
InitClassify == ScanIdle /\ StringsIdle /\ ClassifyInit /\ HexIdle /\ PostIdle
NextClassify == Classify
SpecClassify == InitClassify /\ [][NextClassify]_vars

\* hex_off on one value.
InitHex == ScanIdle /\ StringsIdle /\ ClassifyIdle /\ HexInit /\ PostIdle
NextHex == HexOff
SpecHex == InitHex /\ [][NextHex]_vars

\* postprocess.main on one raw record stream.
InitPost == ScanIdle /\ StringsIdle /\ ClassifyIdle /\ HexIdle /\ PostInit
NextPost == ReadRow \/ Finish
SpecPost == InitPost /\ [][NextPost]_vars

-----------------------------------------------------------------------------
(* Properties of the scan *)

\* The chunks yielded for mapping() tuple i, in order.
ChunksOf(i) == SelectSeq(chunks, LAMBDA c : c[1] = i)

\* The addresses covered by the chunks of tuple i.
Covered(i) ==
    LET ch == ChunksOf(i)
    IN  UNION { ch[k][2]..(ch[k][2] + ch[k][3] - 1) : k \in 1..Len(ch) }

\* The end of the interval the loop scans for tuple i.
ScannedEnd(i) ==
    ComputeVirtEnd(layer.mapping[i].t, chunk_size, layer.maximum_address)

\* C1: with reads succeeding, for every mapped range [start, end), however
\* its tuple is shaped: the chunks cover exactly [start, end), each chunk is
\* min(chunk_size, end - base) bytes long, and consecutive chunks overlap by
\* exactly `overlap` bytes except possibly the last pair.
C1_ChunksCoverEveryRange ==
    (pc = "done" /\ failed = {}) =>
        \A i \in 1..Len(layer.mapping) :
            LET m == layer.mapping[i]
                ch == ChunksOf(i)
            IN  /\ Covered(i) = RangeStart(m)..(RangeEnd(m) - 1)
                /\ \A k \in 1..Len(ch) :
                      ch[k][3] = Min(chunk_size, RangeEnd(m) - ch[k][2])
                /\ \A k \in 1..(Len(ch) - 2) :
                      ch[k][2] + ch[k][3] - ch[k + 1][2] = overlap

\* The cursors the loop visits for tuple i when no read fails:
\* start, start + step, ... below the end of the scanned interval.
ExpectedCursors(i) ==
    LET start == layer.mapping[i].t[1]
        step == chunk_size - overlap
        n == IF ScannedEnd(i) <= start THEN 0
             ELSE (ScannedEnd(i) - start + step - 1) \div step
    IN  [k \in 1..n |-> <<i, start + (k - 1) * step>>]

RECURSIVE ExpectedAttempts(_)
ExpectedAttempts(i) ==
    IF i = 0 THEN <<>> ELSE ExpectedAttempts(i - 1) \o ExpectedCursors(i)

\* What is left of the scan, compared lexicographically: options still to
\* clamp, tuples not yet taken, the position in the loops, and the bytes
\* between the cursor and the end of the scanned interval.
ScanVariant ==
    << IF pc = "config" THEN 1 ELSE 0,
       Len(layer.mapping) - idx,
       CASE pc = "loop" -> 2 [] pc = "mapping" -> 1 [] OTHER -> 0,
       Max(0, virt_end - cursor) >>

LexLess(a, b) ==
    \E k \in 1..4 : a[k] < b[k] /\ \A j \in 1..(k - 1) : a[j] = b[j]

\* C2: whatever reads fail, the scan ends (every step uses up part of a
\* well-founded variant, and only the finished scan has no step), every
\* cursor of the failure-free scan is attempted exactly once and in the same
\* order, and exactly the failed cursors are missing from the yielded chunks.
C2_FailedReadsOnlyLeaveGaps ==
    /\ [][LexLess(ScanVariant', ScanVariant)]_vars
    /\ [](pc = "done" =>
            /\ attempts = ExpectedAttempts(Len(layer.mapping))
            /\ [k \in 1..Len(chunks) |-> <<chunks[k][1], chunks[k][2]>>]
                   = SelectSeq(attempts, LAMBDA a : a \notin failed))

\* C2 witness: a scan that ended after two failed reads and still yielded a
\* chunk of the same range after a failed cursor.
C2_Witness ==
    /\ pc = "done"
    /\ Cardinality(failed) = 2
    /\ \E f \in failed : \E k \in 1..Len(chunks) :
          chunks[k][1] = f[1] /\ chunks[k][2] > f[2]

\* The printable run of the image is a candidate of an enabled scan: at
\* least minlen units, and UTF-16LE only when scan_unicode is set.
RunIsMatch ==
    /\ mem.wide => scan_uni
    /\ (IF mem.wide THEN mem.len \div 2 ELSE mem.len) >= minlen

\* Some yielded chunk ends strictly inside the run.
RunStraddles ==
    \E k \in 1..Len(chunks) :
        /\ chunks[k][2] <= mem.start
        /\ chunks[k][2] + chunks[k][3] > mem.start
        /\ chunks[k][2] + chunks[k][3] < mem.start + mem.len

\* A row carries the whole run at its true absolute offset.
RunEmittedWhole ==
    \E k \in 1..Len(rows) :
        rows[k].offset = mem.start /\ rows[k].length = mem.len

\* C4 as claimed: every match inside a mapped range that straddles a chunk
\* boundary is emitted whole, at its true offset, by some chunk.
C4_StraddlingMatchEmitted ==
    (/\ pc = "done"
     /\ failed = {}
     /\ RunIsMatch
     /\ RunStraddles
     /\ \E i \in 1..Len(layer.mapping) :
           /\ RangeStart(layer.mapping[i]) <= mem.start
           /\ mem.start + mem.len <= RangeEnd(layer.mapping[i]))
    => RunEmittedWhole

\* C4 amended: with reads succeeding, every match of at most overlap + 1
\* bytes inside the interval scanned for a tuple is emitted whole, at its
\* true offset, by some chunk.
C4_ShortMatchEmitted ==
    (/\ pc = "done"
     /\ failed = {}
     /\ RunIsMatch
     /\ mem.len <= overlap + 1
     /\ \E i \in 1..Len(layer.mapping) :
           /\ layer.mapping[i].t[1] <= mem.start
           /\ mem.start + mem.len <= ScannedEnd(i))
    => RunEmittedWhole

\* C4 witness: a match no longer than overlap + 1 that straddles the end of
\* a chunk and was emitted whole.
C4_Witness ==
    /\ pc = "done"
    /\ failed = {}
    /\ RunIsMatch
    /\ RunStraddles
    /\ mem.len <= overlap + 1
    /\ RunEmittedWhole

-----------------------------------------------------------------------------
(* Properties of iter_strings *)

\* A candidate of the UTF-16LE scan: its second byte is NUL.
IsWide(c) == sbuf[c.offset + 2] = 0

-----------------------------------------------------------------------------
(* Properties of match_kind and int_unix_ms *)

HasUrl == \E p \in 1..Len(cdata) : UrlLenAt(cdata, p) > 0
HasSteamId == \E p \in 1..Len(cdata) : SteamIdLenAt(cdata, p) > 0
HasMessage == \E p \in 1..Len(cdata) : MsgLenAt(cdata, p) > 0

\* C7: the kind is url whenever a whitelisted URL is present, steamid when
\* an identifier is present and no URL, chat when a message pattern is
\* present and neither of the others, and string only when none is.
C7_DetectorPriority ==
    cpc = "done" =>
        /\ HasUrl => crow.kind = "url"
        /\ (~HasUrl /\ HasSteamId) => crow.kind = "steamid"
        /\ (~HasUrl /\ ~HasSteamId /\ HasMessage) => crow.kind = "chat"
        /\ crow.kind = "string" <=> (~HasUrl /\ ~HasSteamId /\ ~HasMessage)

\* C7 witness: a candidate holding a URL, an identifier and a message
\* pattern, classified url.
C7_Witness ==
    cpc = "done" /\ HasUrl /\ HasSteamId /\ HasMessage /\ crow.kind = "url"

\* The maximal digit runs of the candidate that are exactly 13 digits long,
\* by their first position.
Exact13Starts ==
    { p \in 1..Len(cdata) :
        /\ IsDigit(cdata[p])
        /\ p = 1 \/ ~IsDigit(cdata[p - 1])
        /\ SpanWhile(cdata, p, "digit") = 13 }

\* C9: unix_ts is the integer value of the first maximal digit run of
\* exactly 13 digits, and 0 when there is none; digit runs of any other
\* length never yield a timestamp.
C9_TimestampIsExact13Run ==
    cpc = "done" =>
        IF Exact13Starts = {} THEN crow.unix_ts = <<48>>
        ELSE LET p == CHOOSE q \in Exact13Starts : \A r \in Exact13Starts : q <= r
             IN  crow.unix_ts = IntOfDigits(SubSeq(cdata, p, p + 12))

-----------------------------------------------------------------------------
(* Properties of hex_off *)

IsHexDigit(c) == IsDigit(c) \/ (c >= 65 /\ c <= 70) \/ (c >= 97 /\ c <= 102)

HexDigitValue(c) ==
    IF IsDigit(c) THEN c - 48 ELSE IF c >= 97 THEN c - 87 ELSE c - 55

RECURSIVE HexValue(_)
HexValue(ds) ==
    IF ds = <<>> THEN 0
    ELSE 16 * HexValue(SubSeq(ds, 1, Len(ds) - 1)) + HexDigitValue(ds[Len(ds)])

\* The input is "0x" followed by hexadecimal digits.
IsHexPrefixed ==
    /\ hin.type = "str"
    /\ StartsWith(hin.s, Lit0x)
    /\ Len(hin.s) >= 3
    /\ \A i \in 3..Len(hin.s) : IsHexDigit(hin.s[i])

\* The input is a plain non-negative integer: an int, or decimal digits.
IsPlainInteger ==
    \/ hin.type = "int"
    \/ hin.type = "str" /\ Len(hin.s) >= 1
          /\ \A i \in 1..Len(hin.s) : IsDigit(hin.s[i])

\* C6: an offset given as a hex-prefixed string or as a plain integer comes
\* out as "0x" and the upper-case hexadecimal digits of the same value, and
\* hex_off applied to its own result changes nothing.
C6_HexOffCanonical ==
    hpc = "done" =>
        /\ IsHexPrefixed =>
              hout = Lit0x \o FormatUpperHex(HexValue(SubSeq(hin.s, 3, Len(hin.s))))
        /\ IsPlainInteger =>
              hout = Lit0x \o FormatUpperHex(
                        IF hin.type = "int" THEN hin.n ELSE DigitsValue(hin.s))
        /\ hagain = hout

-----------------------------------------------------------------------------
(* Properties of postprocess.main *)

\* The tuple a cleaned record is meant to be identified by.
DedupTuple(row) == <<NormKind(row), row.steamid, row.message, row.value>>

\* C3: a record that passed the kind/payload filter is discarded as a
\* duplicate exactly when an earlier kept record has the identical
\* (kind, steamid, message, value) tuple; records whose tuples differ in any
\* component are both kept.
C3_DedupExactlyOnTuple ==
    [][(ppc = "read" /\ pi < Len(raw) /\ PassesFilter(raw[pi + 1]))
        => ((cleaned_rows' = cleaned_rows)
            <=> \E k \in 1..Len(cleaned_rows) :
                    DedupTuple(cleaned_rows[k]) = DedupTuple(raw[pi + 1]))]_vars

\* C5: every record of the clean dataset has a non-empty domain if and only
\* if its kind is url.
C5_DomainIffUrl ==
    \A k \in 1..Len(cleaned_rows) :
        (cleaned_rows[k].domain # <<>>) <=> (NormKind(cleaned_rows[k]) = LitUrl)

\* The rows of the SteamIDs section are in ascending (first_seen, steamid)
\* order.
SteamIdRowsSorted ==
    \A i, j \in 1..Len(steamid_rows) :
        i < j => ~KeyLess(<<steamid_rows[j].first_seen, steamid_rows[j].steamid>>,
                          <<steamid_rows[i].first_seen, steamid_rows[i].steamid>>)

\* The section has exactly one row for each identifier of the records
\* sources of the cleaned set, with the timestamp and offset of the first of
\* them.
OneRowPerSteamId(sources) ==
    /\ \A j \in 1..Len(steamid_rows) :
           \E k \in sources : cleaned_rows[k].steamid = steamid_rows[j].steamid
    /\ \A k \in sources :
           LET sid == cleaned_rows[k].steamid
               first == CHOOSE f \in sources :
                            /\ cleaned_rows[f].steamid = sid
                            /\ \A g \in sources :
                                   cleaned_rows[g].steamid = sid => f <= g
               at == {j \in 1..Len(steamid_rows) : steamid_rows[j].steamid = sid}
           IN  /\ Cardinality(at) = 1
               /\ \A j \in at :
                      /\ steamid_rows[j].first_seen = cleaned_rows[first].timestamp
                      /\ steamid_rows[j].offset = cleaned_rows[first].offset

\* The records with a non-empty steamid, and those among them whose kind
\* column is steamid.
WithSteamId == {k \in 1..Len(cleaned_rows) : cleaned_rows[k].steamid # <<>>}
OfKindSteamId == {k \in WithSteamId : cleaned_rows[k].kind = LitSteamid}

\* C8 as stated: the SteamIDs section has exactly one row for each distinct
\* non-empty steamid occurring in any record of the cleaned, sorted set, with
\* the timestamp and offset of its first occurrence, sorted ascending by
\* (first_seen, steamid).
C8_OneRowPerSteamIdInAnyRecord ==
    ppc = "done" => OneRowPerSteamId(WithSteamId) /\ SteamIdRowsSorted

\* C8, amended: the SteamIDs section has exactly one row for each distinct
\* non-empty steamid occurring in a record of the cleaned, sorted set whose
\* kind column is steamid, with the timestamp and offset of the first such
\* record in sorted order, sorted ascending by (first_seen, steamid).
C8_OneRowPerSteamIdOfKindSteamId ==
    ppc = "done" => OneRowPerSteamId(OfKindSteamId) /\ SteamIdRowsSorted

\* A finished run with two rows in the section, an identifier carried by two
\* steamid records of different timestamps, and two rows that differ only in
\* the identifier.
C8_Witness ==
    /\ ppc = "done"
    /\ Len(steamid_rows) >= 2
    /\ \E k, g \in OfKindSteamId :
           /\ cleaned_rows[k].steamid = cleaned_rows[g].steamid
           /\ cleaned_rows[k].timestamp # cleaned_rows[g].timestamp
    /\ \E i, j \in 1..Len(steamid_rows) :
           /\ i < j
           /\ steamid_rows[i].first_seen = steamid_rows[j].first_seen

====
